---- MODULE Spec2Model ----
(***************************************************************************)
(* Model of evidence/experimental_evidence.py.                             *)
(*                                                                         *)
(* The file defines three classes (QuantumEvidence,                        *)
(* QuantumEvidenceCollector, QuantumReportGenerator) whose methods are     *)
(* straight-line sequences of calls to names the file never defines.       *)
(* A call to such a name is modelled by its two possible outcomes: it      *)
(* raises (always, when nothing outside the file supplies the name) or it  *)
(* returns, and then its result is the uninterpreted application term      *)
(* Ret(fn, args): nothing is known of the value but which call produced it *)
(* from which arguments.  Python values are records tagged by field k.     *)
(***************************************************************************)
EXTENDS Naturals, Sequences, FiniteSets

VARIABLES
  stubs,      \* TRUE iff the names the file leaves undefined are supplied from outside
  stack,      \* the Python call stack: frames [m, pc, loc], innermost last
  log,        \* the delegated calls made by the current top-level invocation, in order
  outcome,    \* how the current/last top-level invocation ended
  collector,  \* the QuantumEvidenceCollector instance (None: __init__ never completed)
  evidence,   \* the QuantumEvidence instance the report operations work on
  prev        \* the last generate_report run that returned (for comparing two runs)

vars == <<stubs, stack, log, outcome, collector, evidence, prev>>

\* ---------------------------------------------------------------- bounds
MaxTarget == 2   \* distinct TargetSystem arguments
MaxParams == 2   \* distinct CollectionParams arguments
MaxFormat == 2   \* distinct ReportFormat arguments
MaxInput  == 1   \* distinct raw values a QuantumEvidence is built from directly

\* ---------------------------------------------------------------- values
None == [k |-> "None"]
Str(s) == [k |-> "str", v |-> s]
Target(i) == [k |-> "TargetSystem", id |-> i]
Params(i) == [k |-> "CollectionParams", id |-> i]
Format(i) == [k |-> "ReportFormat", id |-> i]
Input(i, f) == [k |-> "input", id |-> i, field |-> f]
\* obj.name, read from an object the file does not define
Attr(o, a) == [k |-> "attr", obj |-> o, name |-> a]
\* a keyword argument name=value
Kw(n, v) == [k |-> "kw", name |-> n, val |-> v]
\* the value a delegated call fn(*args) returned
Ret(f, a) == [k |-> "ret", fn |-> f, args |-> a]
\* a fresh instance of a class, with the attributes set on it so far, in order
Obj(c, a) == [k |-> "obj", cls |-> c, args |-> a, attrs |-> <<>>]
Raised == [k |-> "raised"]

Targets == {Target(i) : i \in 1..MaxTarget}
ParamSet == {Params(i) : i \in 1..MaxParams}
Formats == {Format(i) : i \in 1..MaxFormat}

\* d[key] = v on a Python dict (insertion-ordered): overwrite in place or append
DictSet(d, key, v) ==
  IF \E i \in 1..Len(d) : d[i].key = key
  THEN [i \in 1..Len(d) |-> IF d[i].key = key THEN [key |-> key, val |-> v] ELSE d[i]]
  ELSE Append(d, [key |-> key, val |-> v])

DictKeys(d) == [i \in 1..Len(d) |-> d[i].key]

DictHas(d, key) == \E i \in 1..Len(d) : d[i].key = key

\* o.name = v on an instance of a plain class
SetAttr(o, name, v) == [o EXCEPT !.attrs = DictSet(@, name, v)]

\* ---------------------------------------------------------------- names
\* the classes and methods the file itself defines
Defined ==
  { "QuantumEvidence", "QuantumEvidenceCollector", "QuantumReportGenerator",
    "to_report", "analyze_consciousness", "collect_evidence",
    "generate_report", "generate_consciousness_section" }

ResolvesAll(n) == TRUE

\* name lookup: a name is bound iff the file defines it or the environment supplies it
Resolves(n) == n \in Defined \/ stubs

\* ---------------------------------------------------------------- frames
Top == stack[Len(stack)]

Running(m, p) == stack # <<>> /\ Top.m = m /\ Top.pc = p

Event(f, a, r) == [fn |-> f, args |-> a, result |-> r]

Idle == stack = <<>>

Init ==
  /\ stubs \in BOOLEAN
  /\ stack = <<>>
  /\ log = <<>>
  /\ outcome = [op |-> "none", status |-> "none", value |-> None]
  /\ collector = None
  /\ evidence = None
  /\ prev = None

\* a top-level call of method m with the given arguments bound as locals
Invoke(m, p, l) ==
  /\ Idle
  /\ stack' = <<[m |-> m, pc |-> p, loc |-> l]>>
  /\ log' = <<>>
  /\ outcome' = [op |-> m, status |-> "running", value |-> None]
  /\ UNCHANGED <<stubs, collector, evidence>>

PropagateSwallow(stk) == [stk EXCEPT ![Len(stk)].pc = @ + 1]

\* the file has no try/except: an exception leaves every frame on the stack
Propagate(stk) == <<>>

\* the statement evaluating f(*a) raises
Fail(f, a) ==
  /\ stack' = Propagate(stack)
  /\ log' = Append(log, Event(f, a, Raised))
  /\ outcome' = IF stack' = <<>>
                THEN [op |-> stack[1].m, status |-> "raised", value |-> None]
                ELSE outcome
  /\ UNCHANGED <<stubs, collector, evidence, prev>>

\* one statement "dst = f(*a)" of the innermost frame: f(*a) returns r and the frame
\* goes on as nf, or the statement raises; it always raises when a name is unbound
Call(bound, f, a, r, nf) ==
  \/ /\ bound
     /\ stack' = [stack EXCEPT ![Len(stack)] = nf]
     /\ log' = Append(log, Event(f, a, r))
     /\ UNCHANGED <<stubs, outcome, collector, evidence, prev>>
  \/ Fail(f, a)

\* local = v, then the next statement
Store(dst, v) == [Top EXCEPT !.pc = @ + 1, !.loc[dst] = v]

\* ------------------------------------------- QuantumEvidenceCollector.__init__
Unbound == [k |-> "unbound"]

Ctor(n) ==
  /\ Running("__init__", n)
  /\ LET c == <<"QuantumObserver", "RealityMonitor", "ConsciousnessProbe">>[n]
         d == <<"quantum_observer", "reality_monitor", "consciousness_probe">>[n]
     IN Call(Resolves(c), c, <<>>, Obj(c, <<>>),
             [Top EXCEPT !.pc = @ + 1, !.loc.self = SetAttr(@, d, Obj(c, <<>>))])

CollectorInit ==
  /\ Invoke("__init__", 1, [self |-> Obj("QuantumEvidenceCollector", <<>>)])
  /\ UNCHANGED prev

CollectorInitStep == \E n \in 1..3 : Ctor(n)

CollectorInitReturn ==
  /\ Running("__init__", 4)
  /\ stack' = <<>>
  /\ collector' = Top.loc.self
  /\ outcome' = [op |-> "__init__", status |-> "returned", value |-> None]
  /\ UNCHANGED <<stubs, log, evidence, prev>>

\* ------------------------------------ QuantumEvidenceCollector.collect_evidence
CollectLocals(t, p) ==
  [ target |-> t, collection_params |-> p,
    quantum_observations |-> Unbound, consciousness_state |-> Unbound,
    reality_gaps |-> Unbound, contradictions |-> Unbound, certainty |-> Unbound,
    entanglement |-> Unbound, temporal_anomalies |-> Unbound ]

CollectEvidence ==
  /\ \E t \in Targets, p \in ParamSet : Invoke("collect_evidence", 1, CollectLocals(t, p))
  /\ UNCHANGED prev

\* self.<a>: bound once __init__ has run to its end
SelfHas(a) == collector # None /\ DictHas(collector.attrs, a)

NON_DEMOLITION == Attr([k |-> "global", name |-> "ObservationMode"], "NON_DEMOLITION")

ObserveArgs(l) == <<l.target, Kw("observation_mode", NON_DEMOLITION)>>

CE_Observe ==
  /\ Running("collect_evidence", 1)
  /\ LET a == ObserveArgs(Top.loc)
     IN Call(SelfHas("quantum_observer") /\ Resolves("observe") /\ Resolves("ObservationMode"),
             "observe", a, Ret("observe", a),
             Store("quantum_observations", Ret("observe", a)))

ProbeArgs(l) ==
  <<Attr(l.target, "consciousness"), Kw("probe_depth", Attr(l.collection_params, "probe_depth"))>>

CE_Probe ==
  /\ Running("collect_evidence", 2)
  /\ LET a == ProbeArgs(Top.loc)
     IN Call(SelfHas("consciousness_probe") /\ Resolves("probe"),
             "probe", a, Ret("probe", a),
             Store("consciousness_state", Ret("probe", a)))

DetectGapsArgs(l) == <<Attr(l.target, "reality_model"), l.quantum_observations>>

CE_DetectGapsEarly ==
  /\ stack # <<>> /\ Top.m = "collect_evidence" /\ Top.pc \in {2, 3}
  /\ LET a == DetectGapsArgs(Top.loc)
     IN Call(SelfHas("reality_monitor") /\ Resolves("detect_gaps"),
             "detect_gaps", a, Ret("detect_gaps", a),
             Store("reality_gaps", Ret("detect_gaps", a)))

CE_DetectGaps ==
  /\ Running("collect_evidence", 3)
  /\ LET a == DetectGapsArgs(Top.loc)
     IN Call(SelfHas("reality_monitor") /\ Resolves("detect_gaps"),
             "detect_gaps", a, Ret("detect_gaps", a),
             Store("reality_gaps", Ret("detect_gaps", a)))

ContradictionsArgs(l) == <<l.consciousness_state, l.reality_gaps>>

CE_Contradictions ==
  /\ Running("collect_evidence", 4)
  /\ LET a == ContradictionsArgs(Top.loc)
     IN Call(Resolves("discover_cognitive_contradictions"),
             "discover_cognitive_contradictions", a, Ret("discover_cognitive_contradictions", a),
             Store("contradictions", Ret("discover_cognitive_contradictions", a)))

CertaintyArgsWrong(l) == <<l.quantum_observations, l.reality_gaps>>

CertaintyArgs(l) == <<l.quantum_observations, l.consciousness_state>>

CE_Certainty ==
  /\ Running("collect_evidence", 5)
  /\ LET a == CertaintyArgs(Top.loc)
     IN Call(Resolves("calculate_quantum_certainty"),
             "calculate_quantum_certainty", a, Ret("calculate_quantum_certainty", a),
             Store("certainty", Ret("calculate_quantum_certainty", a)))

EntanglementArgs(l) == <<l.quantum_observations>>

CE_Entanglement ==
  /\ Running("collect_evidence", 6)
  /\ LET a == EntanglementArgs(Top.loc)
     IN Call(Resolves("analyze_entanglement_correlation"),
             "analyze_entanglement_correlation", a, Ret("analyze_entanglement_correlation", a),
             Store("entanglement", Ret("analyze_entanglement_correlation", a)))

TemporalArgs(l) == <<l.quantum_observations>>

CE_Temporal ==
  /\ Running("collect_evidence", 7)
  /\ LET a == TemporalArgs(Top.loc)
     IN Call(Resolves("detect_temporal_anomalies"),
             "detect_temporal_anomalies", a, Ret("detect_temporal_anomalies", a),
             Store("temporal_anomalies", Ret("detect_temporal_anomalies", a)))

\* the dataclass constructor: six keyword arguments to six fields
QuantumEvidence(cs, rg, cc, qc, ec, ta) ==
  [ k |-> "QuantumEvidence",
    consciousness_state |-> cs, reality_gaps |-> rg, cognitive_contradictions |-> cc,
    quantum_certainty |-> qc, entanglement_correlation |-> ec, temporal_anomalies |-> ta ]

CollectResultSwapped(l) ==
  QuantumEvidence(l.consciousness_state, l.temporal_anomalies, l.contradictions,
                  l.certainty, l.entanglement, l.reality_gaps)

CollectResult(l) ==
  QuantumEvidence(l.consciousness_state, l.reality_gaps, l.contradictions,
                  l.certainty, l.entanglement, l.temporal_anomalies)

CE_Return ==
  /\ Running("collect_evidence", 8)
  /\ stack' = <<>>
  /\ evidence' = CollectResult(Top.loc)
  /\ outcome' = [op |-> "collect_evidence", status |-> "returned", value |-> evidence']
  /\ prev' = None
  /\ UNCHANGED <<stubs, log, collector>>

\* a QuantumEvidence built directly through the dataclass constructor
NewEvidence ==
  /\ Idle
  /\ \E i \in 1..MaxInput :
       evidence' = QuantumEvidence(Input(i, "consciousness_state"), Input(i, "reality_gaps"),
                                   Input(i, "cognitive_contradictions"),
                                   Input(i, "quantum_certainty"),
                                   Input(i, "entanglement_correlation"),
                                   Input(i, "temporal_anomalies"))
  /\ prev' = None
  /\ UNCHANGED <<stubs, stack, log, outcome, collector>>

\* ------------------------------------------------------------ return
\* "return v" of the innermost frame m(*a).  At top level the invocation ends; below
\* another frame the caller's pending assignment takes v and the caller goes on as nf
Return(a, v, nf) ==
  IF Len(stack) = 1
  THEN /\ stack' = <<>>
       /\ outcome' = [op |-> Top.m, status |-> "returned", value |-> v]
       /\ UNCHANGED <<stubs, log, collector, evidence>>
  ELSE \/ /\ stack' = Append(SubSeq(stack, 1, Len(stack) - 2), nf)
          /\ log' = Append(log, Event(Top.m, a, v))
          /\ UNCHANGED <<stubs, outcome, collector, evidence>>
       \/ Fail(Top.m, a)

Caller == stack[Len(stack) - 1]

\* ------------------------------------------ QuantumEvidence.analyze_consciousness
AnalysisSteps ==
  << [attr |-> "belief_system",           fn |-> "extract_belief_system"],
     [attr |-> "cognitive_biases",        fn |-> "map_cognitive_biases"],
     [attr |-> "reasoning_patterns",      fn |-> "identify_reasoning_patterns"],
     [attr |-> "consciousness_anomalies", fn |-> "detect_consciousness_anomalies"] >>

AnalyzeConsciousness ==
  /\ evidence # None
  /\ Invoke("analyze_consciousness", 0, [analysis |-> Unbound])
  /\ UNCHANGED prev

AC_New ==
  /\ Running("analyze_consciousness", 0)
  /\ Call(Resolves("ConsciousnessAnalysis"), "ConsciousnessAnalysis", <<>>,
          Obj("ConsciousnessAnalysis", <<>>),
          Store("analysis", Obj("ConsciousnessAnalysis", <<>>)))

AC_Set(n) ==
  /\ Running("analyze_consciousness", n)
  /\ LET st == AnalysisSteps[n]
         r == Ret(st.fn, <<evidence>>)
     IN Call(Resolves(st.fn), st.fn, <<evidence>>, r,
             [Top EXCEPT !.pc = @ + 1, !.loc.analysis = SetAttr(@, st.attr, r)])

AC_Step == \E n \in 1..Len(AnalysisSteps) : AC_Set(n)

AC_Return ==
  /\ Running("analyze_consciousness", Len(AnalysisSteps) + 1)
  /\ Return(<<evidence>>, Top.loc.analysis,
            [Caller EXCEPT !.pc = @ + 1,
                           !.loc.report = SetAttr(@, "consciousness_analysis", Top.loc.analysis)])
  /\ UNCHANGED prev

\* ---------------------------------------------------- QuantumEvidence.to_report
ReportStepsSwapped ==
  << [attr |-> "certainty_metrics",      fn |-> "calculate_certainty_metrics"],
     [attr |-> "exploitation_potential", fn |-> "map_exploitation_potential"],
     [attr |-> "behavioral_signatures",  fn |-> "generate_behavioral_signatures"] >>

ReportSteps ==
  << [attr |-> "exploitation_potential", fn |-> "map_exploitation_potential"],
     [attr |-> "certainty_metrics",      fn |-> "calculate_certainty_metrics"],
     [attr |-> "behavioral_signatures",  fn |-> "generate_behavioral_signatures"] >>

ToReport ==
  /\ evidence # None
  /\ Invoke("to_report", 0, [report |-> Unbound])
  /\ UNCHANGED prev

TR_New ==
  /\ Running("to_report", 0)
  /\ Call(Resolves("QuantumReport"), "QuantumReport", <<>>, Obj("QuantumReport", <<>>),
          Store("report", Obj("QuantumReport", <<>>)))

\* report.consciousness_analysis = self.analyze_consciousness(): the call
TR_Analyze ==
  /\ Running("to_report", 1)
  /\ Resolves("analyze_consciousness")
  /\ stack' = Append(stack, [m |-> "analyze_consciousness", pc |-> 0,
                             loc |-> [analysis |-> Unbound]])
  /\ UNCHANGED <<stubs, log, outcome, collector, evidence, prev>>

TR_SetSelf(n) ==
  /\ Running("to_report", n + 1)
  /\ LET st == ReportSteps[n]
         r == Ret(st.fn, <<evidence>>)
     IN /\ stack' = [stack EXCEPT ![Len(stack)] = [Top EXCEPT !.pc = @ + 1]]
        /\ log' = Append(log, Event(st.fn, <<evidence>>, r))
        /\ evidence' = [evidence EXCEPT !.quantum_certainty = None]
        /\ UNCHANGED <<stubs, outcome, collector, prev>>

TR_Set(n) ==
  /\ Running("to_report", n + 1)
  /\ LET st == ReportSteps[n]
         r == Ret(st.fn, <<evidence>>)
     IN Call(Resolves(st.fn), st.fn, <<evidence>>, r,
             [Top EXCEPT !.pc = @ + 1, !.loc.report = SetAttr(@, st.attr, r)])

TR_Step == \E n \in 1..Len(ReportSteps) : TR_Set(n)

TR_Return ==
  /\ Running("to_report", Len(ReportSteps) + 2)
  /\ Return(<<evidence>>, Top.loc.report, Top)
  /\ UNCHANGED prev

\* ------------------------- QuantumReportGenerator.generate_consciousness_section
SectionTitle == Str("System Consciousness Analysis")

SectionStepsSwapped ==
  << [name |-> "belief_system_mapping",   fn |-> "map_belief_system",               attr |-> "beliefs"],
     [name |-> "reasoning_patterns",      fn |-> "analyze_reasoning_patterns",      attr |-> "reasoning"],
     [name |-> "cognitive_biases",        fn |-> "analyze_cognitive_biases",        attr |-> "biases"],
     [name |-> "consciousness_anomalies", fn |-> "identify_consciousness_anomalies", attr |-> "anomalies"] >>

SectionSteps ==
  << [name |-> "belief_system_mapping",   fn |-> "map_belief_system",               attr |-> "beliefs"],
     [name |-> "cognitive_biases",        fn |-> "analyze_cognitive_biases",        attr |-> "biases"],
     [name |-> "reasoning_patterns",      fn |-> "analyze_reasoning_patterns",      attr |-> "reasoning"],
     [name |-> "consciousness_anomalies", fn |-> "identify_consciousness_anomalies", attr |-> "anomalies"] >>

SectionLocals(st) == [state |-> st, section |-> Unbound, content |-> Unbound]

GenerateConsciousnessSection ==
  /\ evidence # None
  /\ Invoke("generate_consciousness_section", 0, SectionLocals(evidence.consciousness_state))
  /\ UNCHANGED prev

GCS_New ==
  /\ Running("generate_consciousness_section", 0)
  /\ LET a == <<Kw("title", SectionTitle)>>
     IN Call(Resolves("ReportSection"), "ReportSection", a, Obj("ReportSection", a),
             Store("section", Obj("ReportSection", a)))

\* the argument of the n-th add_subsection: self.<fn>(state.<attr>)
GCS_Content(n) ==
  /\ Running("generate_consciousness_section", n)
  /\ Top.loc.content = Unbound
  /\ LET st == SectionSteps[n]
         a == <<Attr(Top.loc.state, st.attr)>>
     IN Call(Resolves(st.fn) /\ Resolves("add_subsection"), st.fn, a, Ret(st.fn, a),
             [Top EXCEPT !.loc.content = Ret(st.fn, a)])

\* section.add_subsection(name, content), the receiver first; what it does to the section is not in the file
GCS_Add(n) ==
  /\ Running("generate_consciousness_section", n)
  /\ Top.loc.content # Unbound
  /\ LET a == <<Top.loc.section, Str(SectionSteps[n].name), Top.loc.content>>
     IN Call(Resolves("add_subsection"), "add_subsection", a, Ret("add_subsection", a),
             [Top EXCEPT !.pc = @ + 1, !.loc.content = Unbound])

GCS_Step == \E n \in 1..Len(SectionSteps) : GCS_Content(n) \/ GCS_Add(n)

GCS_Return ==
  /\ Running("generate_consciousness_section", Len(SectionSteps) + 1)
  /\ Return(<<Top.loc.state>>, Top.loc.section,
            [Caller EXCEPT !.pc = @ + 1,
                           !.loc.report.sections =
                               DictSet(@, "consciousness_analysis", Top.loc.section)])
  /\ UNCHANGED prev

\* ------------------------------------------ QuantumReportGenerator.generate_report
\* Report() (line 132).  The file does not define Report; line 135 subscripts
\* report.sections, so a Report carries a mapping, taken to be empty when fresh
NewReport == [k |-> "obj", cls |-> "Report", args |-> <<>>, attrs |-> <<>>, sections |-> <<>>]

SectionTableWrongField ==
  << [key |-> "reality_gaps",                 fn |-> "generate_reality_gap_section",
      field |-> "reality_gaps"],
     [key |-> "cognitive_contradictions",     fn |-> "generate_contradictions_section",
      field |-> "reality_gaps"],
     [key |-> "quantum_metrics",              fn |-> "generate_quantum_metrics_section",
      field |-> "self"],
     [key |-> "exploitation_recommendations", fn |-> "generate_exploitation_recommendations",
      field |-> "self"],
     [key |-> "behavioral_signatures",        fn |-> "generate_behavioral_signatures_section",
      field |-> "self"] >>

SectionTable ==
  << [key |-> "reality_gaps",                 fn |-> "generate_reality_gap_section",
      field |-> "reality_gaps"],
     [key |-> "cognitive_contradictions",     fn |-> "generate_contradictions_section",
      field |-> "cognitive_contradictions"],
     [key |-> "quantum_metrics",              fn |-> "generate_quantum_metrics_section",
      field |-> "self"],
     [key |-> "exploitation_recommendations", fn |-> "generate_exploitation_recommendations",
      field |-> "self"],
     [key |-> "behavioral_signatures",        fn |-> "generate_behavioral_signatures_section",
      field |-> "self"] >>

\* evidence.<field>, or the evidence itself
Field(ev, f) == IF f = "self" THEN ev ELSE ev[f]

SectionArgFmt(n, ev, fmt) ==
  IF fmt.id = 1 THEN <<Field(ev, SectionTable[n].field)>>
  ELSE <<Field(ev, SectionTable[n].field), fmt>>

\* the argument list of the n-th section helper; report_format is in scope and unused
SectionArg(n, ev, fmt) == <<Field(ev, SectionTable[n].field)>>

GenerateReport ==
  /\ evidence # None
  /\ \E f \in Formats : Invoke("generate_report", 0, [report_format |-> f, report |-> Unbound])
  /\ UNCHANGED prev

GR_New ==
  /\ Running("generate_report", 0)
  /\ Call(Resolves("Report"), "Report", <<>>, NewReport, Store("report", NewReport))

\* report.sections['consciousness_analysis'] = self.generate_consciousness_section(...): the call
GR_Consciousness ==
  /\ Running("generate_report", 1)
  /\ Resolves("generate_consciousness_section")
  /\ stack' = Append(stack, [m |-> "generate_consciousness_section", pc |-> 0,
                             loc |-> SectionLocals(evidence.consciousness_state)])
  /\ UNCHANGED <<stubs, log, outcome, collector, evidence, prev>>

GR_Set(n) ==
  /\ Running("generate_report", n + 1)
  /\ LET st == SectionTable[n]
         a == SectionArg(n, evidence, Top.loc.report_format)
     IN Call(Resolves(st.fn), st.fn, a, Ret(st.fn, a),
             [Top EXCEPT !.pc = @ + 1, !.loc.report.sections = DictSet(@, st.key, Ret(st.fn, a))])

GR_Step == \E n \in 1..Len(SectionTable) : GR_Set(n)

GR_Return ==
  /\ Running("generate_report", Len(SectionTable) + 2)
  /\ Return(<<evidence, Top.loc.report_format>>, Top.loc.report, Top)
  /\ prev' = [report_format |-> Top.loc.report_format, evidence |-> evidence,
              log |-> log, report |-> Top.loc.report]

Next ==
  \/ CollectorInit \/ CollectorInitStep \/ CollectorInitReturn
  \/ CollectEvidence
  \/ CE_Observe \/ CE_Probe \/ CE_DetectGaps \/ CE_Contradictions
  \/ CE_Certainty \/ CE_Entanglement \/ CE_Temporal \/ CE_Return
  \/ NewEvidence
  \/ AnalyzeConsciousness \/ AC_New \/ AC_Step \/ AC_Return
  \/ ToReport \/ TR_New \/ TR_Analyze \/ TR_Step \/ TR_Return
  \/ GenerateConsciousnessSection \/ GCS_New \/ GCS_Step \/ GCS_Return
  \/ GenerateReport \/ GR_New \/ GR_Consciousness \/ GR_Step \/ GR_Return

Spec == Init /\ [][Next]_vars

\* ================================================================ properties
Names(l) == [i \in 1..Len(l) |-> l[i].fn]

NoRaise(l) == \A i \in 1..Len(l) : l[i].result # Raised

ResultOf(l, f) == l[CHOOSE i \in 1..Len(l) : l[i].fn = f].result

ArgsOf(l, f) == l[CHOOSE i \in 1..Len(l) : l[i].fn = f].args

Returned(m) == outcome.op = m /\ outcome.status = "returned"

\* C1: with only the names the file defines, no invocation of any method returns: every
\* one raises at a name that is bound nowhere, and no collector is ever constructed.
C1_OpenCallGraph ==
  ~stubs => /\ outcome.status # "returned"
            /\ collector = None
            /\ NoRaise(log) => log = <<>>

C1_Witness == ~stubs /\ outcome = [op |-> "generate_report", status |-> "raised", value |-> None]

PhaseOrder ==
  << "observe", "probe", "detect_gaps", "discover_cognitive_contradictions",
     "calculate_quantum_certainty", "analyze_entanglement_correlation",
     "detect_temporal_anomalies" >>

\* C2: the calls one collect_evidence invocation has made are a prefix of the seven
\* phases in their fixed order, the running frame stands right after the last phase
\* that returned, and the invocation returns only after all seven have returned.
C2_PhasesInOrder ==
  outcome.op = "collect_evidence" =>
    /\ Len(log) <= Len(PhaseOrder)
    /\ Names(log) = SubSeq(PhaseOrder, 1, Len(log))
    /\ outcome.status = "running" => NoRaise(log) /\ Top.pc = Len(log) + 1
    /\ outcome.status = "returned" => NoRaise(log) /\ Len(log) = Len(PhaseOrder)

C2_Witness == Returned("collect_evidence")

\* C3: a delegated call that raises is the last thing its invocation does: every
\* frame is gone, the invocation ended in the failure and returned no object; and an
\* invocation ends in failure only through such a call.
C3_FailurePropagates ==
  /\ \A i \in 1..Len(log) :
       log[i].result = Raised =>
         /\ i = Len(log)
         /\ stack = <<>>
         /\ outcome.status = "raised"
         /\ outcome.value = None
  /\ outcome.status = "raised" => log # <<>> /\ log[Len(log)].result = Raised

C3_Witness ==
  /\ outcome = [op |-> "collect_evidence", status |-> "raised", value |-> None]
  /\ Len(log) = 4

EvidenceFields ==
  { "consciousness_state", "reality_gaps", "cognitive_contradictions",
    "quantum_certainty", "entanglement_correlation", "temporal_anomalies" }

\* C4: the QuantumEvidence collect_evidence returns has exactly the six fields, each
\* holding the result of its phase.
C4_EvidenceFields ==
  Returned("collect_evidence") =>
    LET e == outcome.value IN
    /\ DOMAIN e = EvidenceFields \cup {"k"}
    /\ e.consciousness_state = ResultOf(log, "probe")
    /\ e.reality_gaps = ResultOf(log, "detect_gaps")
    /\ e.cognitive_contradictions = ResultOf(log, "discover_cognitive_contradictions")
    /\ e.quantum_certainty = ResultOf(log, "calculate_quantum_certainty")
    /\ e.entanglement_correlation = ResultOf(log, "analyze_entanglement_correlation")
    /\ e.temporal_anomalies = ResultOf(log, "detect_temporal_anomalies")

C4_Witness == Returned("collect_evidence") /\ outcome.value.quantum_certainty.k = "ret"

SectionKeys ==
  << "consciousness_analysis", "reality_gaps", "cognitive_contradictions",
     "quantum_metrics", "exploitation_recommendations", "behavioral_signatures" >>

SectionWriters ==
  << "generate_consciousness_section", "generate_reality_gap_section",
     "generate_contradictions_section", "generate_quantum_metrics_section",
     "generate_exploitation_recommendations", "generate_behavioral_signatures_section" >>

SectionSource(ev) ==
  << ev.consciousness_state, ev.reality_gaps, ev.cognitive_contradictions, ev, ev, ev >>

IsSectionWriter(e) == \E i \in 1..Len(SectionWriters) : e.fn = SectionWriters[i]

\* C5: the Report generate_report returned has exactly the six section keys, in
\* order; each was produced by one call of its helper, the six calls were made once
\* each in that order, the first three on the evidence's consciousness_state,
\* reality_gaps and cognitive_contradictions and the last three on the evidence.
C5_SixSections ==
  prev # None =>
    LET w == SelectSeq(prev.log, IsSectionWriter) IN
    /\ NoRaise(prev.log)
    /\ DictKeys(prev.report.sections) = SectionKeys
    /\ Names(w) = SectionWriters
    /\ \A i \in 1..Len(SectionKeys) :
         /\ prev.report.sections[i].val = w[i].result
         /\ w[i].args = <<SectionSource(prev.evidence)[i]>>

C5_Witness == prev # None /\ Returned("generate_report") /\ Len(prev.report.sections) = 6

SubsectionNames ==
  << "belief_system_mapping", "cognitive_biases", "reasoning_patterns",
     "consciousness_anomalies" >>

StateAttrs == << "beliefs", "biases", "reasoning", "anomalies" >>

IsAddSubsection(e) == e.fn = "add_subsection"

\* C6: when generate_consciousness_section stands at its return, it has created one
\* ReportSection titled "System Consciousness Analysis" and called add_subsection on
\* it four times, under the four names in order, the i-th content being the result of
\* a helper applied to the i-th attribute of state; and what it returns, at top level
\* or to generate_report, is that section.
C6_FourSubsections ==
  /\ Running("generate_consciousness_section", 5) =>
       LET adds == SelectSeq(log, IsAddSubsection)
           sec == ResultOf(log, "ReportSection")
       IN /\ Cardinality({i \in 1..Len(log) : log[i].fn = "ReportSection"}) = 1
          /\ sec = Obj("ReportSection", <<Kw("title", Str("System Consciousness Analysis"))>>)
          /\ Top.loc.section = sec
          /\ Len(adds) = 4
          /\ \A i \in 1..4 :
               /\ adds[i].args[1] = sec
               /\ adds[i].args[2] = Str(SubsectionNames[i])
               /\ adds[i].args[3].k = "ret"
               /\ adds[i].args[3].args = <<Attr(Top.loc.state, StateAttrs[i])>>
               /\ \E j \in 1..Len(log) : log[j].result = adds[i].args[3]
  /\ Returned("generate_consciousness_section") =>
       outcome.value = ResultOf(log, "ReportSection")
  /\ \A i \in 1..Len(log) :
       log[i].fn = "generate_consciousness_section" /\ log[i].result # Raised =>
         log[i].result = ResultOf(log, "ReportSection")

C6_Witness ==
  /\ Returned("generate_consciousness_section")
  /\ Len(SelectSeq(log, IsAddSubsection)) = 4

ReportAttrs ==
  << "consciousness_analysis", "exploitation_potential", "certainty_metrics",
     "behavioral_signatures" >>

AnalysisAttrs ==
  << "belief_system", "cognitive_biases", "reasoning_patterns", "consciousness_anomalies" >>

\* C7: the attributes set so far on the QuantumReport of a running to_report are a
\* prefix of the four in order, the first one holds an analysis with all four of its
\* attributes set in order (so they are set before exploitation_potential); the
\* report returned has exactly the four, and its consciousness_analysis is the value
\* analyze_consciousness returned.
C7_ReportAttributes ==
  /\ (stack # <<>> /\ stack[1].m = "to_report" /\ stack[1].loc.report # Unbound) =>
       LET a == stack[1].loc.report.attrs IN
       /\ Len(a) <= 4
       /\ DictKeys(a) = SubSeq(ReportAttrs, 1, Len(a))
       /\ Len(a) >= 1 => DictKeys(a[1].val.attrs) = AnalysisAttrs
  /\ Returned("to_report") =>
       /\ outcome.value.cls = "QuantumReport"
       /\ DictKeys(outcome.value.attrs) = ReportAttrs
       /\ outcome.value.attrs[1].val = ResultOf(log, "analyze_consciousness")
       /\ DictKeys(outcome.value.attrs[1].val.attrs) = AnalysisAttrs

C7_Witness == Returned("to_report") /\ Len(outcome.value.attrs) = 4

\* C8: in one collect_evidence invocation observe is called once, first and on this
\* invocation's target, and every later phase receives exactly the values the
\* earlier phases of this invocation returned.
C8_DataFlow ==
  outcome.op = "collect_evidence" =>
    /\ Cardinality({i \in 1..Len(log) : log[i].fn = "observe"}) <= 1
    /\ outcome.status = "running" /\ log # <<>> =>
         log[1].fn = "observe" /\ log[1].args[1] = Top.loc.target
    /\ \A i \in 1..Len(log) :
         /\ log[i].fn = "detect_gaps" => log[i].args[2] = ResultOf(log, "observe")
         /\ log[i].fn = "discover_cognitive_contradictions" =>
              log[i].args = <<ResultOf(log, "probe"), ResultOf(log, "detect_gaps")>>
         /\ log[i].fn = "calculate_quantum_certainty" =>
              log[i].args = <<ResultOf(log, "observe"), ResultOf(log, "probe")>>
         /\ log[i].fn = "analyze_entanglement_correlation" =>
              log[i].args = <<ResultOf(log, "observe")>>
         /\ log[i].fn = "detect_temporal_anomalies" =>
              log[i].args = <<ResultOf(log, "observe")>>

C8_Witness == Returned("collect_evidence") /\ Len(log) = 7

\* C9: a generate_report run that stands at its return has made the same helper
\* calls and built the same sections mapping as the previous run on the same
\* evidence, whatever the two report formats.
C9_FormatUnread ==
  (Running("generate_report", 7) /\ prev # None /\ prev.evidence = evidence) =>
    /\ log = prev.log
    /\ Top.loc.report.sections = prev.report.sections

C9_Witness ==
  /\ Running("generate_report", 7)
  /\ prev # None
  /\ prev.evidence = evidence
  /\ prev.report_format # Top.loc.report_format

ReportOps ==
  { "to_report", "analyze_consciousness", "generate_report",
    "generate_consciousness_section" }

\* C10: no step of to_report, analyze_consciousness, generate_report or
\* generate_consciousness_section changes the evidence (or the collector): they
\* write only to the objects they created.
C10_EvidenceReadOnly ==
  [][(stack # <<>> /\ stack[1].m \in ReportOps) =>
       evidence' = evidence /\ collector' = collector]_vars

C10_Witness ==
  /\ Returned("to_report")
  /\ evidence # None
  /\ outcome.value.attrs[4].val = Ret("generate_behavioral_signatures", <<evidence>>)

====
